---- MODULE Spec2Model ----
(***************************************************************************)
(* The lost-item wizard (frontend/src/components/LostItemsWizard.tsx) and  *)
(* the pure functions it calls (utils/validation.ts, utils/mapping.ts).    *)
(*                                                                         *)
(* A JavaScript string is a sequence of one-character strings, so that     *)
(* trim, toLowerCase, includes and split are computed, not assumed.        *)
(* null and undefined are one-element sequences holding a token that is no *)
(* character, so they differ from every string.                            *)
(***************************************************************************)
EXTENDS Integers, Sequences, FiniteSets, TLC

VARIABLES
  currentStep,        \* useState(1)
  completedSteps,     \* useState({}): flag of step k, absent read as FALSE
  schema,             \* useState([])
  schemaLoading,      \* useState(true)
  schemaError,        \* useState(null): TRUE when the error text is set
  csvHeaders,         \* useState([])
  allRows,            \* useState([])
  mapping,            \* useState({})
  standardRecords,    \* useState([])
  validationErrors,   \* useState([])
  localStorage,       \* the browser's localStorage: key -> parsed item
  pending,            \* the /api/parse-csv requests in flight
  parsedData,         \* Step1DataSource's useState(null): TRUE when a file is shown
  uploads,            \* files sent so far
  fixes,              \* edits applied so far
  dirty,              \* effect dependencies changed by the last commit
  phase,              \* "handler" right after a handler, "effects" after a commit's effects
  last,               \* the handler whose updates and effects are being processed
  returned,           \* what the last call of isPerfectMapping returned
  fixed               \* history: the value each cell was last fixed to, (rowIndex, field) -> value

vars == <<currentStep, completedSteps, schema, schemaLoading, schemaError,
          csvHeaders, allRows, mapping, standardRecords, validationErrors,
          localStorage, pending, parsedData, uploads, fixes, dirty, phase, last, returned,
          fixed>>

-----------------------------------------------------------------------------
(* Bounds of the model *)

\* Data rows of the largest uploaded file.
MaxRows == 1

\* Files the user sends in one session.
MaxUploads == 2

\* Edits of step 3 that change a value, in one session.
MaxFixes == 1

-----------------------------------------------------------------------------
(* JavaScript values *)

Null == <<"<null>">>
Undefined == <<"<undefined>">>
EmptyObject == [k \in {} |-> k]

\* v is falsy: undefined, null or "".
Falsy(v) == v = Undefined \/ v = Null \/ v = <<>>

\* v || ""
OrEmpty(v) == IF Falsy(v) THEN <<>> ELSE v

\* obj[key] on an object held as a function: undefined when the key is absent.
Get(obj, key) == IF key \in DOMAIN obj THEN obj[key] ELSE Undefined

\* The object with obj[key] set to v ({...obj, [key]: v}).
Put(obj, key, v) == [k \in DOMAIN obj \cup {key} |-> IF k = key THEN v ELSE obj[k]]

UpperCase == <<"A","B","C","D","E","F","G","H","I","J","K","L","M",
               "N","O","P","Q","R","S","T","U","V","W","X","Y","Z">>
LowerCase == <<"a","b","c","d","e","f","g","h","i","j","k","l","m",
               "n","o","p","q","r","s","t","u","v","w","x","y","z">>

LowerChar(c) ==
  IF \E i \in 1..Len(UpperCase) : UpperCase[i] = c
  THEN LowerCase[CHOOSE i \in 1..Len(UpperCase) : UpperCase[i] = c]
  ELSE c

\* String.prototype.toLowerCase
ToLowerCase(s) == [i \in 1..Len(s) |-> LowerChar(s[i])]

IsWhitespace(c) == c = " "

RECURSIVE TrimStart(_)
TrimStart(s) ==
  IF s # <<>> /\ IsWhitespace(Head(s)) THEN TrimStart(Tail(s)) ELSE s

RECURSIVE TrimEnd(_)
TrimEnd(s) ==
  IF s # <<>> /\ IsWhitespace(s[Len(s)]) THEN TrimEnd(SubSeq(s, 1, Len(s) - 1)) ELSE s

\* String.prototype.trim
Trim(s) == TrimEnd(TrimStart(s))

\* String.prototype.includes
Includes(s, sub) ==
  \E i \in 0..(Len(s) - Len(sub)) : SubSeq(s, i + 1, i + Len(sub)) = sub

\* s.split(/\s+/): the pieces between maximal runs of whitespace; a leading or
\* trailing run leaves an empty piece, and "" splits to [""].
RECURSIVE SplitFrom(_, _, _)
SplitFrom(s, cur, inRun) ==
  IF s = <<>> THEN <<cur>>
  ELSE IF IsWhitespace(Head(s))
       THEN IF inRun THEN SplitFrom(Tail(s), cur, TRUE)
            ELSE <<cur>> \o SplitFrom(Tail(s), <<>>, TRUE)
       ELSE SplitFrom(Tail(s), Append(cur, Head(s)), FALSE)

SplitWhitespace(s) == SplitFrom(s, <<>>, FALSE)

\* Array.prototype.join
RECURSIVE Join(_, _)
Join(parts, sep) ==
  IF parts = <<>> THEN <<>>
  ELSE IF Len(parts) = 1 THEN parts[1]
  ELSE parts[1] \o sep \o Join(Tail(parts), sep)

\* Array.prototype.includes
ArrayIncludes(arr, v) == \E i \in 1..Len(arr) : arr[i] = v

-----------------------------------------------------------------------------
(* utils/validation.ts *)

IsValueChangedRaw(oldValue, newValue) == OrEmpty(oldValue) # newValue

isValueChanged(oldValue, newValue) ==
  LET oldTrimmed == Trim(OrEmpty(oldValue))
      newTrimmed == Trim(newValue)
  IN  oldTrimmed # newTrimmed

Digits == {"0","1","2","3","4","5","6","7","8","9"}

DigitValue(c) == CHOOSE n \in 0..9 : <<"0","1","2","3","4","5","6","7","8","9">>[n + 1] = c

\* new Date(s) on the date-only form YYYY-MM-DD of the ECMAScript date-time
\* string format: a time value exists iff month is 01..12 and day 01..31.
IsIsoDate(s) ==
  /\ Len(s) = 10
  /\ s[5] = "-" /\ s[8] = "-"
  /\ \A i \in {1, 2, 3, 4, 6, 7, 9, 10} : s[i] \in Digits
  /\ LET month == 10 * DigitValue(s[6]) + DigitValue(s[7])
         day == 10 * DigitValue(s[9]) + DigitValue(s[10])
     IN  month \in 1..12 /\ day \in 1..31

\* !isNaN(new Date(s).getTime()). Strings outside the ECMAScript format are
\* parsed by engine-specific fallbacks; the strings of this model that are not
\* ISO dates (words, "15.01.2024", blank-padded text) are rejected by them.
DateParses(s) == IsIsoDate(s)

\* A date check that accepts every string that is not blank.
IsValidDateNotBlank(dateString) == ~Falsy(dateString) /\ Trim(dateString) # <<>>

isValidDate(dateString) ==
  IF Falsy(dateString) \/ Trim(dateString) = <<>> THEN FALSE
  ELSE DateParses(dateString)

\* An enum check that compares the trimmed value with the examples exactly.
IsValidEnumExact(value, examples) ==
  \E i \in 1..Len(examples) : examples[i] = Trim(OrEmpty(value))

isValidEnum(value, examples) ==
  IF Falsy(value) \/ Trim(value) = <<>> THEN FALSE
  ELSE LET valueLower == Trim(ToLowerCase(value))
       IN  \E i \in 1..Len(examples) : ToLowerCase(examples[i]) = valueLower

\* The examples of a field that has no examples property.
NoExamples == <<Undefined>>

\* field.examples && field.examples.length > 0
HasExamples(field) == field.examples # NoExamples /\ Len(field.examples) > 0

RequiredMessage(field) == <<"Pole wymagane \"", field.label, "\" jest puste">>
DateMessage(field) ==
  <<"Nieprawidlowy format daty dla pola \"", field.label,
    "\". Oczekiwany format: YYYY-MM-DD">>
EnumMessage(field) ==
  <<"Nieprawidlowa wartosc dla pola \"", field.label,
    "\". Dozwolone wartosci: ", Join(field.examples, <<",", " ">>)>>

ValidationError(rowIndex, field, message, currentValue) ==
  [rowIndex |-> rowIndex, field |-> field.name, message |-> message,
   currentValue |-> currentValue]

\* Validation of one field whose required-and-empty error carries the value.
FieldErrorsRawValue(record, rowIndex, field) ==
  LET valueStr == OrEmpty(Get(record, field.name))
  IN  IF Trim(valueStr) = <<>>
      THEN IF field.required
           THEN <<ValidationError(rowIndex, field, RequiredMessage(field), valueStr)>>
           ELSE <<>>
      ELSE <<>>

\* The errors one field of one record contributes (one loop iteration of
\* validateRecord).
FieldErrors(record, rowIndex, field) ==
  LET value == Get(record, field.name)
      valueStr == OrEmpty(value)
      isEmpty == Trim(valueStr) = <<>>
  IN  IF field.required /\ isEmpty
      THEN <<ValidationError(rowIndex, field, RequiredMessage(field), Null)>>
      ELSE IF isEmpty THEN <<>>
      ELSE (IF field.type = "date" /\ ~isValidDate(valueStr)
            THEN <<ValidationError(rowIndex, field, DateMessage(field), valueStr)>>
            ELSE <<>>)
           \o
           (IF field.type = "enum" /\ HasExamples(field)
               /\ ~isValidEnum(valueStr, field.examples)
            THEN <<ValidationError(rowIndex, field, EnumMessage(field), valueStr)>>
            ELSE <<>>)

RECURSIVE ValidateFields(_, _, _, _)
ValidateFields(record, rowIndex, sch, i) ==
  IF i > Len(sch) THEN <<>>
  ELSE FieldErrors(record, rowIndex, sch[i]) \o ValidateFields(record, rowIndex, sch, i + 1)

\* A validation of one record that visits the fields last to first.
ValidateRecordBackwards(record, rowIndex, sch) ==
  ValidateFields(record, rowIndex, [i \in 1..Len(sch) |-> sch[Len(sch) + 1 - i]], 1)

\* rowIndex is 0-based, as in the code.
validateRecord(record, rowIndex, sch) == ValidateFields(record, rowIndex, sch, 1)

RECURSIVE ValidateFrom(_, _, _)
ValidateFrom(records, sch, i) ==
  IF i > Len(records) THEN <<>>
  ELSE validateRecord(records[i], i - 1, sch) \o ValidateFrom(records, sch, i + 1)

\* A validator that keeps the errors of its earlier calls.
ValidateRecordsAccumulating(records, sch) ==
  validationErrors \o ValidateFrom(records, sch, 1)

validateRecords(records, sch) == ValidateFrom(records, sch, 1)

\* The record built from one row (the inner loop of transformAndValidate).
TransformRow(row, map, sch) ==
  LET Mapped(f) == ~Falsy(Get(map, f.name)) /\ Get(row, Get(map, f.name)) # Undefined
      present == {i \in 1..Len(sch) : Mapped(sch[i]) \/ sch[i].required}
  IN  [name \in {sch[i].name : i \in present} |->
         LET f == sch[CHOOSE i \in present : sch[i].name = name]
         IN  IF Mapped(f) THEN OrEmpty(Get(row, Get(map, f.name))) ELSE <<>>]

\* The transformer with the records in the reverse of the rows' order.
TransformAndValidateReversed(sampleRows, map, sch) ==
  LET n == Len(sampleRows)
      records == [i \in 1..n |-> TransformRow(sampleRows[n + 1 - i], map, sch)]
  IN  [records |-> records, errors |-> validateRecords(records, sch)]

\* The transformer with its errors numbered by row from 1.
TransformAndValidateOneBased(sampleRows, map, sch) ==
  LET records == [i \in 1..Len(sampleRows) |-> TransformRow(sampleRows[i], map, sch)]
      RECURSIVE Errors(_)
      Errors(i) ==
        IF i > Len(sampleRows) THEN <<>>
        ELSE validateRecord(records[i], i, sch) \o Errors(i + 1)
  IN  [records |-> records, errors |-> Errors(1)]

transformAndValidate(sampleRows, map, sch) ==
  LET records == [i \in 1..Len(sampleRows) |-> TransformRow(sampleRows[i], map, sch)]
      RECURSIVE Errors(_)
      Errors(i) ==
        IF i > Len(sampleRows) THEN <<>>
        ELSE validateRecord(records[i], i - 1, sch) \o Errors(i + 1)
  IN  [records |-> records, errors |-> Errors(1)]

-----------------------------------------------------------------------------
(* utils/mapping.ts *)

CURRENT_SCHEMA_VERSION == <<"v","1">>

\* The values of a mapping that are not null (Object.values(...).filter).
MappedHeaders(map) == {map[k] : k \in {k \in DOMAIN map : map[k] # Null}}

\* An applicability test that does not look at the version tag.
CanApplyWhateverVersion(prof, currentCsvHeaders) ==
  \A h \in MappedHeaders(prof.mapping) : ArrayIncludes(currentCsvHeaders, h)

canApplyMappingProfile(prof, currentCsvHeaders) ==
  IF prof.schemaVersion # CURRENT_SCHEMA_VERSION THEN FALSE
  ELSE \A h \in MappedHeaders(prof.mapping) : ArrayIncludes(currentCsvHeaders, h)

MAPPING_PROFILE_KEY == "lostItemsMappingProfile"

\* The profile saveMappingProfile builds; JSON.stringify and JSON.parse give
\* back its strings and nulls as they were.
MappingProfile(map, headers) ==
  [schemaVersion |-> CURRENT_SCHEMA_VERSION, mapping |-> map, csvHeaders |-> headers]

saveMappingProfile(storage, map, headers) ==
  Put(storage, MAPPING_PROFILE_KEY, MappingProfile(map, headers))

\* loadMappingProfile returns null iff the item is absent.
HasMappingProfile(storage) == MAPPING_PROFILE_KEY \in DOMAIN storage

loadMappingProfile(storage) == storage[MAPPING_PROFILE_KEY]

\* s.replace(/\s+/g, "_"): every maximal run of whitespace becomes one "_".
RECURSIVE ReplaceWhitespace(_, _)
ReplaceWhitespace(s, inRun) ==
  IF s = <<>> THEN <<>>
  ELSE IF IsWhitespace(Head(s))
       THEN (IF inRun THEN <<>> ELSE <<"_">>) \o ReplaceWhitespace(Tail(s), TRUE)
       ELSE <<Head(s)>> \o ReplaceWhitespace(Tail(s), FALSE)

\* s.replace(/[()]/g, "")
RemoveParentheses(s) == SelectSeq(s, LAMBDA c : c \notin {"(", ")"})

\* fieldLabelNormalized of isPerfectMapping's check 4.
NormalizedLabel(field) ==
  RemoveParentheses(ReplaceWhitespace(ToLowerCase(field.label), FALSE))

\* The test of check 4 on one field and its (truthy) mapped header.
IsPerfectMatch(field, mappedHeader) ==
  LET headerLower == Trim(ToLowerCase(mappedHeader))
      fieldNameLower == ToLowerCase(field.name)
      fieldLabelNormalized == NormalizedLabel(field)
  IN  \/ headerLower = fieldNameLower
      \/ headerLower = fieldLabelNormalized
      \/ Includes(headerLower, fieldNameLower)
      \/ Includes(fieldLabelNormalized, headerLower)

\* The keys whose value is not null: one per element of mappedValues.
MappedKeys(map) == {k \in DOMAIN map : map[k] # Null}

\* perfectMatches / mappedFieldsCount >= 0.8, in integers.
AtLeast80Percent(perfectMatches, mappedFieldsCount) ==
  5 * perfectMatches >= 4 * mappedFieldsCount

isPerfectMapping(sch, map, headers) ==
  LET allRequiredMapped ==
        \A i \in 1..Len(sch) : ~sch[i].required \/ Get(map, sch[i].name) # Null
      mappedFieldsCount == Cardinality(MappedKeys(map))
      uniqueMappedValues == MappedHeaders(map)
      allMappedHeadersExist == \A h \in MappedHeaders(map) : ArrayIncludes(headers, h)
      perfectMatches ==
        Cardinality({i \in 1..Len(sch) :
                       /\ ~Falsy(Get(map, sch[i].name))
                       /\ IsPerfectMatch(sch[i], Get(map, sch[i].name))})
  IN  IF ~allRequiredMapped THEN FALSE
      ELSE IF mappedFieldsCount # Cardinality(uniqueMappedValues) THEN FALSE
      ELSE IF ~allMappedHeadersExist THEN FALSE
      ELSE mappedFieldsCount > 0 /\ AtLeast80Percent(perfectMatches, mappedFieldsCount)

-----------------------------------------------------------------------------
(* LostItemsWizard.tsx: buildDefaultMapping *)

\* The first header, in CSV order, whose entry in matches is true (the loop
\* over csvHeaders that breaks at the first match); null if there is none.
FirstHeader(headers, matches) ==
  IF \E i \in 1..Len(headers) : matches[i]
  THEN headers[CHOOSE i \in 1..Len(headers) :
                 matches[i] /\ \A j \in 1..(i - 1) : ~matches[j]]
  ELSE Null

\* A matcher without the exact-name strategy.
MatchFieldPartialFirst(headers, field) ==
  LET fieldNameLower == ToLowerCase(field.name)
  IN  FirstHeader(headers,
        [i \in 1..Len(headers) |->
           \/ Includes(ToLowerCase(headers[i]), fieldNameLower)
           \/ Includes(fieldNameLower, ToLowerCase(headers[i]))])

\* A matcher that takes the first header satisfying any of the strategies.
MatchFieldFirstOfAny(headers, field) ==
  LET fieldNameLower == ToLowerCase(field.name)
      labelWords == SplitWhitespace(ToLowerCase(field.label))
  IN  FirstHeader(headers,
        [i \in 1..Len(headers) |->
           \/ Includes(ToLowerCase(headers[i]), fieldNameLower)
           \/ Includes(fieldNameLower, ToLowerCase(headers[i]))
           \/ \E w \in 1..Len(labelWords) :
                Includes(ToLowerCase(headers[i]), labelWords[w])])

\* The header one schema field is mapped to (one iteration of the outer loop).
MatchField(headers, field) ==
  LET fieldNameLower == ToLowerCase(field.name)
      fieldLabelLower == ToLowerCase(field.label)
      labelWords == SplitWhitespace(fieldLabelLower)
      exact == FirstHeader(headers,
                 [i \in 1..Len(headers) |-> ToLowerCase(headers[i]) = fieldNameLower])
      partial == FirstHeader(headers,
                   [i \in 1..Len(headers) |->
                      \/ Includes(ToLowerCase(headers[i]), fieldNameLower)
                      \/ Includes(fieldNameLower, ToLowerCase(headers[i]))])
      byLabel == FirstHeader(headers,
                   [i \in 1..Len(headers) |->
                      \E w \in 1..Len(labelWords) :
                        Includes(ToLowerCase(headers[i]), labelWords[w])])
  IN  IF exact # Null THEN exact
      ELSE IF partial # Null THEN partial
      ELSE byLabel

buildDefaultMapping(headers, sch) ==
  [name \in {sch[i].name : i \in 1..Len(sch)} |->
     MatchField(headers, sch[CHOOSE i \in 1..Len(sch) : sch[i].name = name])]

-----------------------------------------------------------------------------
(* The inputs of the model: the schema the server returns and the files the  *)
(* user uploads.                                                            *)

N_status == <<"s","t","a","t","u","s">>
N_found_date == <<"f","o","u","n","d","_","d","a","t","e">>
H_status == <<"s","t","a","t","u","s">>
H_Stan == <<"S","t","a","n">>
V_ok == <<"o","k">>
V_no == <<"n","o">>
V_noBlank == <<"n","o"," ">>
V_iso == <<"2","0","2","4","-","0","1","-","1","5">>

TheSchema ==
  << [name |-> N_status, label |-> <<"S","t","a","t","u","s">>, required |-> TRUE,
      type |-> "enum", examples |-> <<V_ok>>],
     [name |-> N_found_date, label |-> <<"D","a","t","a"," ","z","n","a","l","e","z","i","e","n","i","a">>, required |-> FALSE,
      type |-> "date", examples |-> <<>>] >>

\* What GET /api/schema answers with.
SchemaResponses == {TheSchema}

\* POST /api/parse-csv: every row has an entry for every header, cells trimmed.
\* The first file names its column "Stan", which the Auto-Mapper matches to no
\* field; the second has the column "status" and no data rows.
RowsStan == << (H_Stan :> V_no), (H_Stan :> <<>>), (H_Stan :> V_ok) >>

ParsedCSVData(headers, rows) == [headers |-> headers, rows |-> rows]

Uploads ==
  { ParsedCSVData(<<H_Stan>>, SubSeq(RowsStan, 1, MaxRows)),
    ParsedCSVData(<<H_status>>, <<>>) }

\* What the text input of step 3 is given.
TextInputs == {V_noBlank, V_iso}

\* localStorage at the start of the session: nothing, or a profile of an
\* older schema version.
InitialStorages ==
  { EmptyObject,
    MAPPING_PROFILE_KEY :>
      [schemaVersion |-> <<"v","0">>, mapping |-> (N_status :> H_Stan),
       csvHeaders |-> <<H_Stan>>] }

-----------------------------------------------------------------------------
(* LostItemsWizard.tsx: the wizard's state and the effects of a commit.     *)
(*                                                                         *)
(* A handler (an event or a promise callback) sets state; React then       *)
(* renders and runs, in one commit, every effect one of whose dependencies *)
(* changed, each reading the state of that render. What the effects set is *)
(* rendered in turn, until no dependency has changed. dirty holds the      *)
(* changed dependencies; handlers run only between such chains.            *)
(***************************************************************************)

Steps == 1..5

NoFlags == [k \in Steps |-> FALSE]

NoCall == [op |-> "mount", rowIndex |-> 0, field |-> <<>>, newValue |-> <<>>, changed |-> FALSE]

Call(op) == [NoCall EXCEPT !.op = op]

Init ==
  /\ currentStep = 1
  /\ completedSteps = NoFlags
  /\ schema = <<>>
  /\ schemaLoading = TRUE
  /\ schemaError = FALSE
  /\ csvHeaders = <<>>
  /\ allRows = <<>>
  /\ mapping = EmptyObject
  /\ standardRecords = <<>>
  /\ validationErrors = <<>>
  /\ localStorage \in InitialStorages
  /\ pending = <<>>
  /\ parsedData = FALSE
  /\ uploads = 0
  /\ fixes = 0
  /\ dirty = {}
  /\ phase = "effects"
  /\ last = NoCall
  /\ returned = FALSE
  /\ fixed = EmptyObject

\* handleStepComplete: setCompletedSteps(prev => ({...prev, [step]: completed}))
handleStepComplete(flags, step, completed) == [flags EXCEPT ![step] = completed]

\* Step2ColumnMapping: missingRequired, as indices of the schema.
missingRequired(sch, map) ==
  {i \in 1..Len(sch) : sch[i].required /\ Falsy(Get(map, sch[i].name))}

isStepComplete(sch, map) == missingRequired(sch, map) = {}

\* The mapping an upload or the arrival of the schema installs: the cached
\* profile's when it applies, the Auto-Mapper's otherwise.
ProfileOrDefault(storage, headers, sch) ==
  IF HasMappingProfile(storage)
     /\ canApplyMappingProfile(loadMappingProfile(storage), headers)
  THEN loadMappingProfile(storage).mapping
  ELSE buildDefaultMapping(headers, sch)

\* A step-3 flag that is never raised.
Step3CompleteNever(errors) == FALSE

Step3CompleteAlways(errors) == TRUE

\* The flag the step-3 completion effect publishes.
Step3Complete(errors) == Len(errors) = 0

\* The onComplete effect of the mounted step: Step2ColumnMapping reports
\* isStepComplete, Step4Preview and Step5Export report true. Its onComplete
\* dependency is a new function on every render of the wizard, so it runs in
\* every commit.
StepEffect(flags) ==
  IF currentStep = 2 THEN handleStepComplete(flags, 2, isStepComplete(schema, mapping))
  ELSE IF currentStep \in {4, 5} THEN handleStepComplete(flags, currentStep, TRUE)
  ELSE flags

RunsRebuildWithoutHeaders ==
  /\ dirty \cap {"schema", "csvHeaders"} # {}
  /\ Len(schema) > 0 /\ DOMAIN mapping = {}

RunsRebuild ==
  /\ dirty \cap {"schema", "csvHeaders"} # {}
  /\ Len(schema) > 0 /\ Len(csvHeaders) > 0 /\ DOMAIN mapping = {}

RunsSave ==
  /\ dirty \cap {"currentStep", "completedSteps", "mapping", "csvHeaders"} # {}
  /\ currentStep = 3 /\ completedSteps[2] = TRUE
  /\ Len(csvHeaders) > 0 /\ DOMAIN mapping # {}

RunsTransform ==
  /\ dirty \cap {"currentStep", "allRows", "mapping", "schema"} # {}
  /\ currentStep = 3
  /\ Len(allRows) > 0 /\ Len(schema) > 0 /\ DOMAIN mapping # {}

RunsStep3 ==
  /\ dirty \cap {"currentStep", "validationErrors.length"} # {}
  /\ currentStep = 3

\* The effects have nothing left to do.
Settled == dirty = {} /\ StepEffect(completedSteps) = completedSteps

\* One commit: the effects whose dependencies changed, all on the state of the
\* render they belong to.
RunEffects ==
  /\ ~Settled
  /\ LET result == transformAndValidate(allRows, mapping, schema)
         flags3 == IF RunsStep3
                   THEN handleStepComplete(completedSteps, 3, Step3Complete(validationErrors))
                   ELSE completedSteps
         flags == StepEffect(flags3)
     IN  /\ mapping' = IF RunsRebuild
                       THEN ProfileOrDefault(localStorage, csvHeaders, schema)
                       ELSE mapping
         /\ localStorage' = IF RunsSave
                            THEN saveMappingProfile(localStorage, mapping, csvHeaders)
                            ELSE localStorage
         /\ standardRecords' = IF RunsTransform THEN result.records ELSE standardRecords
         /\ validationErrors' = IF RunsTransform THEN result.errors ELSE validationErrors
         /\ completedSteps' = flags
         /\ dirty' = {d \in {"mapping", "validationErrors.length", "completedSteps"} :
                        \/ d = "mapping" /\ RunsRebuild
                        \/ d = "validationErrors.length" /\ RunsTransform
                             /\ Len(result.errors) # Len(validationErrors)
                        \/ d = "completedSteps" /\ (RunsStep3 \/ flags # flags3)}
  /\ phase' = "effects"
  /\ UNCHANGED <<currentStep, schema, schemaLoading, schemaError, csvHeaders, allRows,
                 pending, parsedData, uploads, fixes, returned, fixed>>
  /\ last' = IF Settled' THEN NoCall ELSE last

-----------------------------------------------------------------------------
(* Handlers *)

\* fetch("/api/schema") resolves: setSchema(data); setSchemaLoading(false).
SchemaLoaded ==
  /\ Settled /\ schemaLoading
  /\ \E data \in SchemaResponses : schema' = data
  /\ schemaLoading' = FALSE
  /\ dirty' = {"schema"}
  /\ phase' = "handler" /\ last' = Call("schemaLoaded")
  /\ UNCHANGED <<returned, fixed, uploads, fixes>>
  /\ UNCHANGED <<currentStep, completedSteps, schemaError, csvHeaders, allRows, mapping,
                 standardRecords, validationErrors, localStorage, pending, parsedData>>

\* fetch("/api/schema") rejects: setSchemaError(...); setSchemaLoading(false).
SchemaFailed ==
  /\ Settled /\ schemaLoading
  /\ schemaError' = TRUE
  /\ schemaLoading' = FALSE
  /\ dirty' = {}
  /\ phase' = "handler" /\ last' = Call("schemaFailed")
  /\ UNCHANGED <<returned, fixed, uploads, fixes>>
  /\ UNCHANGED <<currentStep, completedSteps, schema, csvHeaders, allRows, mapping,
                 standardRecords, validationErrors, localStorage, pending, parsedData>>

\* The mounted Step1DataSource is waiting for a request (its isLoading).
isLoading == \E i \in 1..Len(pending) : pending[i].live

\* The requests in flight once Step1DataSource is unmounted: they still call
\* the wizard's callbacks, but set the state of no mounted component.
Unmounted(requests) == [i \in 1..Len(requests) |-> [requests[i] EXCEPT !.live = FALSE]]

RemoveAt(requests, i) == SubSeq(requests, 1, i - 1) \o SubSeq(requests, i + 1, Len(requests))

\* Step1DataSource.handleFileChange up to its await: the request is sent. The
\* file input is rendered while no file is shown and none is loading. The
\* callbacks the request will call are those of this render, so
\* handleDataParsed will read the schema of this moment.
StartUpload ==
  /\ Settled /\ currentStep = 1 /\ ~parsedData /\ ~isLoading
  /\ uploads < MaxUploads
  /\ uploads' = uploads + 1
  /\ \E data \in Uploads :
       pending' = Append(pending, [data |-> data, schema |-> schema, live |-> TRUE])
  /\ parsedData' = FALSE
  /\ dirty' = {}
  /\ phase' = "handler" /\ last' = Call("startUpload")
  /\ UNCHANGED <<currentStep, completedSteps, schema, schemaLoading, schemaError,
                 csvHeaders, allRows, mapping, standardRecords, validationErrors,
                 localStorage, fixes, returned, fixed>>

\* handleDataParsed, called with the schema `sch` of the render it closes over:
\* the mapping it sets, or none.
DataParsedSetsMapping(sch) == Len(sch) > 0

DataParsedMapping(data, sch) == ProfileOrDefault(localStorage, data.headers, sch)

\* A request resolves: setParsedData(data); onDataParsed(data, file.name);
\* onComplete(true).
UploadDone ==
  /\ Settled
  /\ \E i \in 1..Len(pending) :
       LET request == pending[i]
       IN  /\ csvHeaders' = request.data.headers
           /\ allRows' = request.data.rows
           /\ mapping' = IF DataParsedSetsMapping(request.schema)
                         THEN DataParsedMapping(request.data, request.schema)
                         ELSE mapping
           /\ parsedData' = IF request.live THEN TRUE ELSE parsedData
           /\ pending' = RemoveAt(pending, i)
           /\ dirty' = {"csvHeaders", "allRows", "completedSteps"}
                         \cup (IF DataParsedSetsMapping(request.schema)
                               THEN {"mapping"} ELSE {})
  /\ completedSteps' = handleStepComplete(completedSteps, 1, TRUE)
  /\ phase' = "handler" /\ last' = Call("uploadDone")
  /\ UNCHANGED <<returned, uploads, fixes>>
  /\ fixed' = EmptyObject
  /\ UNCHANGED <<currentStep, schema, schemaLoading, schemaError, standardRecords,
                 validationErrors, localStorage>>

\* A request fails or the server rejects the file: onComplete(false).
UploadFailed ==
  /\ Settled
  /\ \E i \in 1..Len(pending) : pending' = RemoveAt(pending, i)
  /\ completedSteps' = handleStepComplete(completedSteps, 1, FALSE)
  /\ dirty' = {"completedSteps"}
  /\ phase' = "handler" /\ last' = Call("uploadFailed")
  /\ UNCHANGED <<returned, fixed, uploads, fixes, parsedData>>
  /\ UNCHANGED <<currentStep, schema, schemaLoading, schemaError, csvHeaders, allRows,
                 mapping, standardRecords, validationErrors, localStorage>>

\* Step1DataSource.handleReset, the button shown with the parsed file:
\* setParsedData(null); onComplete(false).
handleReset ==
  /\ Settled /\ currentStep = 1 /\ parsedData
  /\ parsedData' = FALSE
  /\ completedSteps' = handleStepComplete(completedSteps, 1, FALSE)
  /\ dirty' = {"completedSteps"}
  /\ phase' = "handler" /\ last' = Call("handleReset")
  /\ UNCHANGED <<returned, fixed, uploads, fixes, pending>>
  /\ UNCHANGED <<currentStep, schema, schemaLoading, schemaError, csvHeaders, allRows,
                 mapping, standardRecords, validationErrors, localStorage>>

\* Step2ColumnMapping.handleMappingChange(fieldName, csvHeader) and the
\* wizard's handleMappingChange: the select offers "" and every CSV header,
\* once the schema and the headers are there.
handleMappingChange ==
  /\ Settled /\ currentStep = 2
  /\ ~schemaLoading /\ ~schemaError /\ Len(schema) > 0 /\ Len(csvHeaders) > 0
  /\ \E i \in 1..Len(schema), csvHeader \in {<<>>} \cup {csvHeaders[j] : j \in 1..Len(csvHeaders)} :
       mapping' = Put(mapping, schema[i].name, IF Falsy(csvHeader) THEN Null ELSE csvHeader)
  /\ dirty' = {"mapping"}
  /\ phase' = "handler" /\ last' = Call("handleMappingChange")
  /\ UNCHANGED <<returned, uploads, fixes>>
  /\ fixed' = EmptyObject
  /\ UNCHANGED <<currentStep, completedSteps, schema, schemaLoading, schemaError,
                 csvHeaders, allRows, standardRecords, validationErrors, localStorage,
                 pending, parsedData>>

canGoNext == completedSteps[currentStep] = TRUE
canGoPrev == currentStep > 1

NextStepUnguarded(step) == IF step < 5 THEN step + 1 ELSE step

\* The step goNext leaves the wizard at.
NextStep(step) == IF canGoNext /\ step < 5 THEN step + 1 ELSE step

\* The step goPrev leaves the wizard at.
PrevStep(step) == IF canGoPrev THEN step - 1 ELSE step

\* Leaving step 1 unmounts Step1DataSource: its state is dropped.
goNext ==
  /\ Settled
  /\ currentStep' = NextStep(currentStep)
  /\ parsedData' = IF currentStep' # 1 THEN FALSE ELSE parsedData
  /\ pending' = IF currentStep' # 1 THEN Unmounted(pending) ELSE pending
  /\ dirty' = IF currentStep' # currentStep THEN {"currentStep"} ELSE {}
  /\ phase' = "handler" /\ last' = Call("goNext")
  /\ UNCHANGED <<returned, fixed, uploads, fixes>>
  /\ UNCHANGED <<completedSteps, schema, schemaLoading, schemaError, csvHeaders, allRows,
                 mapping, standardRecords, validationErrors, localStorage>>

goPrev ==
  /\ Settled
  /\ currentStep' = PrevStep(currentStep)
  /\ dirty' = IF currentStep' # currentStep THEN {"currentStep"} ELSE {}
  /\ phase' = "handler" /\ last' = Call("goPrev")
  /\ UNCHANGED <<returned, fixed, uploads, fixes>>
  /\ UNCHANGED <<completedSteps, schema, schemaLoading, schemaError, csvHeaders, allRows,
                 mapping, standardRecords, validationErrors, localStorage, pending, parsedData>>

\* The "Rozpocznij nowy plik" button of the last step.
handleRestartWizard ==
  /\ Settled /\ currentStep = 5
  /\ currentStep' = 1
  /\ completedSteps' = NoFlags
  /\ csvHeaders' = <<>>
  /\ allRows' = <<>>
  /\ mapping' = EmptyObject
  /\ standardRecords' = <<>>
  /\ validationErrors' = <<>>
  /\ dirty' = {"currentStep", "completedSteps", "csvHeaders", "allRows", "mapping"}
                \cup (IF Len(validationErrors) # 0 THEN {"validationErrors.length"} ELSE {})
  /\ phase' = "handler" /\ last' = Call("handleRestartWizard")
  /\ UNCHANGED <<returned, uploads, fixes>>
  /\ fixed' = EmptyObject
  /\ UNCHANGED <<schema, schemaLoading, schemaError, localStorage, pending, parsedData>>

-----------------------------------------------------------------------------
(* Step 3: the inline fix *)

\* schema.find((f) => f.name === fieldName), as an index; 0 when there is none.
FieldIndex(sch, fieldName) ==
  IF \E i \in 1..Len(sch) : sch[i].name = fieldName
  THEN CHOOSE i \in 1..Len(sch) :
         sch[i].name = fieldName /\ \A j \in 1..(i - 1) : sch[j].name # fieldName
  ELSE 0

\* Step3Validation: the values handleSaveEdit can pass for a listed error.
\* handleStartEdit puts currentValue || "" in the editor; an enum field is
\* edited with a select of "" and the examples, any other with a text input.
EditValues(error) ==
  LET i == FieldIndex(schema, error.field)
      start == OrEmpty(error.currentValue)
  IN  IF i # 0 /\ schema[i].type = "enum"
      THEN {start, <<>>} \cup {schema[i].examples[j] : j \in 1..Len(schema[i].examples)}
      ELSE {start} \cup TextInputs

FixErrorStaleValidation(rowIndex, field, newValue) ==
  LET record == standardRecords[rowIndex + 1]
      changed == isValueChanged(OrEmpty(Get(record, field)), newValue)
      csvColumn == Get(mapping, field)
      setsRows == changed /\ ~Falsy(csvColumn) /\ rowIndex + 1 \in 1..Len(allRows)
  IN  [changed |-> changed,
       setsRows |-> setsRows,
       rows |-> IF setsRows
                THEN [allRows EXCEPT ![rowIndex + 1] = Put(@, csvColumn, newValue)]
                ELSE allRows,
       records |-> IF changed
                   THEN [standardRecords EXCEPT ![rowIndex + 1] = Put(@, field, newValue)]
                   ELSE standardRecords,
       errors |-> IF changed THEN validateRecords(standardRecords, schema)
                  ELSE validationErrors]

FixErrorKeepsErrors(rowIndex, field, newValue) ==
  LET record == standardRecords[rowIndex + 1]
      changed == isValueChanged(OrEmpty(Get(record, field)), newValue)
      csvColumn == Get(mapping, field)
      setsRows == changed /\ ~Falsy(csvColumn) /\ rowIndex + 1 \in 1..Len(allRows)
  IN  [changed |-> changed,
       setsRows |-> setsRows,
       rows |-> IF setsRows
                THEN [allRows EXCEPT ![rowIndex + 1] = Put(@, csvColumn, newValue)]
                ELSE allRows,
       records |-> IF changed
                   THEN [standardRecords EXCEPT ![rowIndex + 1] = Put(@, field, newValue)]
                   ELSE standardRecords,
       errors |-> validationErrors]

\* handleFixError on a record that exists (rowIndex is 0-based): whether the
\* value counts as changed, and the rows, records and errors it publishes.
FixError(rowIndex, field, newValue) ==
  LET record == standardRecords[rowIndex + 1]
      oldValue == OrEmpty(Get(record, field))
      changed == isValueChanged(oldValue, newValue)
      csvColumn == Get(mapping, field)
      setsRows == changed /\ ~Falsy(csvColumn) /\ rowIndex + 1 \in 1..Len(allRows)
      updatedRecords == [standardRecords EXCEPT ![rowIndex + 1] = Put(@, field, newValue)]
  IN  [changed |-> changed,
       setsRows |-> setsRows,
       rows |-> IF setsRows
                THEN [allRows EXCEPT ![rowIndex + 1] = Put(@, csvColumn, newValue)]
                ELSE allRows,
       records |-> IF changed THEN updatedRecords ELSE standardRecords,
       errors |-> IF changed THEN validateRecords(updatedRecords, schema)
                  ELSE validationErrors]

\* Step3Validation.handleSaveEdit(error) -> onFixError(rowIndex, field, editValue)
handleFixError ==
  /\ Settled /\ currentStep = 3
  /\ \E e \in 1..Len(validationErrors) :
       \E newValue \in EditValues(validationErrors[e]) :
         LET error == validationErrors[e]
             fix == FixError(error.rowIndex, error.field, newValue)
         IN  /\ fix.changed => fixes < MaxFixes
             /\ fixes' = IF fix.changed THEN fixes + 1 ELSE fixes
             /\ fixed' = IF fix.changed
                         THEN Put(fixed, <<error.rowIndex, error.field>>, newValue)
                         ELSE fixed
             /\ allRows' = fix.rows
             /\ standardRecords' = fix.records
             /\ validationErrors' = fix.errors
             /\ dirty' = (IF fix.setsRows THEN {"allRows"} ELSE {})
                           \cup (IF Len(fix.errors) # Len(validationErrors)
                                 THEN {"validationErrors.length"} ELSE {})
             /\ last' = [op |-> "handleFixError", rowIndex |-> error.rowIndex,
                         field |-> error.field, newValue |-> newValue,
                         changed |-> fix.changed]
  /\ phase' = "handler"
  /\ UNCHANGED <<currentStep, completedSteps, schema, schemaLoading, schemaError,
                 csvHeaders, mapping, localStorage, pending, parsedData, uploads, returned>>

-----------------------------------------------------------------------------

Next ==
  \/ SchemaLoaded
  \/ SchemaFailed
  \/ StartUpload
  \/ UploadDone
  \/ UploadFailed
  \/ handleReset
  \/ handleMappingChange
  \/ goNext
  \/ goPrev
  \/ handleRestartWizard
  \/ handleFixError
  \/ RunEffects

Spec == Init /\ [][Next]_vars

-----------------------------------------------------------------------------
(* Properties of the wizard *)

\* The operation being processed is an inline fix of step 3.
IsFix(call) == call.op = "handleFixError"

\* The errors of the list that concern one cell.
ErrorsOfCell(errors, rowIndex, field) ==
  {e \in 1..Len(errors) : errors[e].rowIndex = rowIndex /\ errors[e].field = field}

\* The headers, rows, mapping, records and errors of the session.
SessionData == <<csvHeaders, allRows, mapping, standardRecords, validationErrors>>

\* C1: in every reachable state the stored error list is exactly what the
\* validator returns for the whole current record set under the schema.
C1_ErrorsAreValidationOfRecords ==
  validationErrors = validateRecords(standardRecords, schema)

\* C1 witness: a fix has changed a record and errors are still listed.
C1_Witness ==
  /\ IsFix(last) /\ last.changed /\ phase = "handler"
  /\ Len(standardRecords) = MaxRows
  /\ validationErrors # <<>>

\* C2: on steps 4 and 5 the error list is empty and the validator finds no
\* error in the current records.
C2_NoErrorsOnPreviewAndExport ==
  currentStep \in {4, 5} =>
    /\ validationErrors = <<>>
    /\ validateRecords(standardRecords, schema) = <<>>

\* C2 witness: the export step is reached with records that a fix repaired.
C2_Witness ==
  /\ currentStep = 5 /\ Settled
  /\ standardRecords # <<>> /\ fixes > 0

\* C3: once the effects have settled, the wizard is on step 3 or later only if
\* every required field of the loaded schema is mapped to a CSV column.
C3_RequiredFieldsMappedFromStep3 ==
  (Settled /\ currentStep \in 3..5) => missingRequired(schema, mapping) = {}

\* C4: a fix whose trimmed value equals the trimmed record value leaves the
\* records, the source rows and the error list as they were.
C4_UnchangedValueIsNoOp ==
  [][ ( /\ phase' = "handler" /\ IsFix(last')
        /\ last'.rowIndex + 1 \in 1..Len(standardRecords)
        /\ Trim(last'.newValue)
             = Trim(OrEmpty(Get(standardRecords[last'.rowIndex + 1], last'.field))) )
      => UNCHANGED <<standardRecords, allRows, validationErrors>> ]_vars

\* C4 witness: a fix was submitted whose value differs from the record's only
\* by surrounding blanks, and the error of that cell is still listed.
C4_Witness ==
  /\ IsFix(last) /\ ~last.changed /\ phase = "handler"
  /\ last.newValue # OrEmpty(Get(standardRecords[last.rowIndex + 1], last.field))
  /\ ErrorsOfCell(validationErrors, last.rowIndex, last.field) # {}

\* C5: right after a fix that changed the value of a mapped field, the source
\* row holds the raw value under the mapped column, the record holds it under
\* the field, and transforming the rows again gives the records in memory.
C5_FixAgreesWithRetransform ==
  (IsFix(last) /\ last.changed /\ phase = "handler" /\ ~Falsy(Get(mapping, last.field))) =>
    /\ last.rowIndex + 1 \in 1..Len(allRows)
    /\ Get(allRows[last.rowIndex + 1], mapping[last.field]) = last.newValue
    /\ Get(standardRecords[last.rowIndex + 1], last.field) = last.newValue
    /\ transformAndValidate(allRows, mapping, schema).records = standardRecords

\* A value that meets the rules of a schema field: non-empty if the field is
\* required, a date that parses if it is a date, one of the examples if it is
\* an enum.
ValidForField(field, value) ==
  /\ field.required => Trim(value) # <<>>
  /\ field.type = "date" => DateParses(value)
  /\ field.type = "enum" => ArrayIncludes(field.examples, value)

\* C6: while a fix that changed the value to one valid for its field is being
\* processed, the error list holds no error for the cell it fixed.
C6_ValidFixClearsCell ==
  ( /\ IsFix(last) /\ last.changed
    /\ FieldIndex(schema, last.field) # 0
    /\ ValidForField(schema[FieldIndex(schema, last.field)], last.newValue) )
  => ErrorsOfCell(validationErrors, last.rowIndex, last.field) = {}

\* C6 witness: a fix has just replaced a listed value by a valid one.
C6_Witness ==
  /\ IsFix(last) /\ last.changed /\ phase = "handler"
  /\ ValidForField(schema[FieldIndex(schema, last.field)], last.newValue)
  /\ Get(standardRecords[last.rowIndex + 1], last.field) = last.newValue

\* C7: the step is always one of 1..5; a step changes it by +1, by -1 or, on
\* restart, to 1; +1 needs the completion flag of the step left, and nothing
\* goes forward from step 5.
C7_LinearNavigation ==
  /\ [](currentStep \in Steps)
  /\ [][ \/ currentStep' = currentStep
         \/ /\ currentStep' = currentStep + 1
            /\ currentStep < 5
            /\ completedSteps[currentStep] = TRUE
         \/ currentStep' = currentStep - 1
         \/ currentStep' = 1 /\ last'.op = "handleRestartWizard" ]_vars

\* C7 witness: the last step has been reached by going forward, with records.
C7_Witness ==
  /\ currentStep = 5 /\ last.op = "goNext" /\ phase = "handler"
  /\ standardRecords # <<>> /\ completedSteps[4] = TRUE

\* C8: going back from a step above 1 is never refused, it lowers the step by
\* one, and neither it nor the effects it triggers change the headers, rows,
\* mapping, records or errors.
C8_BackKeepsData ==
  [][ /\ (phase' = "handler" /\ last'.op = "goPrev") =>
           /\ currentStep > 1 => currentStep' = currentStep - 1
           /\ UNCHANGED SessionData
      /\ (phase' = "effects" /\ last.op = "goPrev") => UNCHANGED SessionData ]_vars

\* The state restart leaves: step 1, no flag, no file, no mapping, no records.
Cleared ==
  /\ currentStep = 1
  /\ completedSteps = NoFlags
  /\ csvHeaders = <<>> /\ allRows = <<>>
  /\ mapping = EmptyObject
  /\ standardRecords = <<>> /\ validationErrors = <<>>

\* C9: restart leaves the wizard cleared and the schema, its loading flag and
\* its error as they were, and so do the effects the restart triggers.
C9_RestartClearsAllButSchema ==
  [][ \/ phase' = "handler" /\ last'.op = "handleRestartWizard"
      \/ phase' = "effects" /\ last.op = "handleRestartWizard"
      => Cleared' /\ UNCHANGED <<schema, schemaLoading, schemaError>> ]_vars

\* C9 witness: the wizard was restarted with a schema loaded and a mapping
\* profile for the file's headers in the cache.
C9_Witness ==
  /\ last.op = "handleRestartWizard" /\ phase = "handler"
  /\ schema # <<>>
  /\ HasMappingProfile(localStorage)
  /\ loadMappingProfile(localStorage).schemaVersion = CURRENT_SCHEMA_VERSION

\* C10: in every settled state on step 3 or later, with the schema loaded and
\* its required fields mapped, the records are, one per row and in the rows'
\* order, the transformation of the current rows under the current mapping and
\* schema.
C10_RecordsAreTransformOfRows ==
  (Settled /\ currentStep \in 3..5 /\ schema # <<>> /\ missingRequired(schema, mapping) = {}) =>
    standardRecords = transformAndValidate(allRows, mapping, schema).records

-----------------------------------------------------------------------------
(* The pure functions of utils/validation.ts, utils/mapping.ts and the       *)
(* Auto-Mapper, called directly on arguments drawn from bounded sets. The    *)
(* arguments and the values returned are held in the wizard's variables of   *)
(* the same name; phase tells which function's arguments the state holds.    *)

\* Rows of one direct call of the transformer.
MaxRecords == 2

N_item_category == <<"i","t","e","m","_","c","a","t","e","g","o","r","y">>
N_item_description == <<"i","t","e","m","_","d","e","s","c","r","i","p","t","i","o","n">>
H_Data == <<"D","a","t","a">>
H_Kategoria == <<"K","a","t","e","g","o","r","i","a"," ","p","r","z","e","d","m","i","o","t","u">>
H_Opis == <<"O","p","i","s">>
H_status_old == <<"s","t","a","t","u","s","_","o","l","d">>
H_STATUS == <<"S","T","A","T","U","S">>
H_date == <<"d","a","t","e">>
H_found_date == <<"f","o","u","n","d","_","d","a","t","e">>
V_blank == <<" ">>
V_OkBlank == <<"O","k"," ">>
V_dotted == <<"1","5",".","0","1",".","2","0","2","4">>
V_przechowywany == <<"p","r","z","e","c","h","o","w","y","w","a","n","y">>
V_Przechowywany == <<"P","r","z","e","c","h","o","w","y","w","a","n","y">>
V_wydany == <<"w","y","d","a","n","y"," ","w","l","a","s","c","i","c","i","e","l","o","w","i">>
V_zlikwidowany == <<"z","l","i","k","w","i","d","o","w","a","n","y">>
V_zgubiony == <<"z","g","u","b","i","o","n","y">>

F_found_date_required ==
  [name |-> N_found_date, label |-> <<"D","a","t","a"," ","z","n","a","l","e","z","i","e","n","i","a">>, required |-> TRUE,
   type |-> "date", examples |-> NoExamples]
F_item_category ==
  [name |-> N_item_category, label |-> <<"K","a","t","e","g","o","r","i","a"," ","p","r","z","e","d","m","i","o","t","u">>, required |-> TRUE,
   type |-> "string", examples |-> NoExamples]
F_item_description ==
  [name |-> N_item_description, label |-> <<"O","p","i","s">>, required |-> FALSE,
   type |-> "string", examples |-> NoExamples]
F_status_three ==
  [name |-> N_status, label |-> <<"S","t","a","t","u","s">>, required |-> FALSE,
   type |-> "enum", examples |-> <<V_przechowywany, V_wydany, V_zlikwidowany>>]
F_status_open ==
  [name |-> N_status, label |-> <<"S","t","a","t","u","s">>, required |-> TRUE,
   type |-> "enum", examples |-> NoExamples]
F_status_none ==
  [name |-> N_status, label |-> <<"S","t","a","t","u","s">>, required |-> FALSE,
   type |-> "enum", examples |-> <<>>]

F_status_old ==
  [name |-> H_status_old, label |-> <<"S","t","a","r","y"," ","s","t","a","t","u","s">>, required |-> FALSE,
   type |-> "string", examples |-> NoExamples]

\* Schemas handed to the Auto-Mapper and the Evaluator only: one field's name
\* is part of another's.
MapSchemas == { <<F_status_open, F_status_old>> }

PureSchemas ==
  { TheSchema,
    <<F_item_category, F_item_description, F_status_three>>,
    <<F_found_date_required, F_status_three>>,
    <<F_status_open>>,
    <<F_status_none, TheSchema[2]>> }

PureValues ==
  {<<>>, V_blank, V_ok, V_OkBlank, V_noBlank, V_iso, V_dotted, V_Przechowywany, V_zgubiony}

\* Row objects: one column, no column, two columns.
PureRows ==
  {H_Stan :> v : v \in {<<>>, V_blank, V_OkBlank}}
    \cup {EmptyObject,
          [h \in {H_Stan, H_Data} |-> IF h = H_Stan THEN V_ok ELSE V_iso],
          [h \in {H_Stan, H_Data} |-> IF h = H_Stan THEN V_Przechowywany ELSE V_dotted]}

\* Records handed to the validator directly: one entry, no entry, two entries.
PureRecords ==
  {N_status :> v : v \in PureValues}
    \cup {EmptyObject,
          [n \in {N_status, N_found_date} |-> IF n = N_status THEN V_ok ELSE V_iso],
          [n \in {N_status, N_found_date} |-> IF n = N_status THEN V_Przechowywany ELSE V_dotted]}

SeqsUpTo(S, n) == UNION {[1..k -> S] : k \in 0..n}

\* Mappings of a schema: every field missing, null or one of the targets.
MappingsOf(sch, targets) ==
  LET names == {sch[i].name : i \in 1..Len(sch)}
  IN  UNION {[keys -> targets \cup {Null}] : keys \in SUBSET names}

PureHeaderLists ==
  { <<H_Stan>>, <<H_status>>, <<H_Kategoria, H_Opis>>, <<H_status_old, H_STATUS>>,
    <<H_status_old, H_STATUS, H_Kategoria, H_Opis>>,
    <<H_status_old, H_status>>, <<N_status, N_item_description, N_item_category>>,
    <<H_date, H_Stan>>, <<H_found_date, H_status>>, <<>> }

PureInit ==
  /\ currentStep = 1 /\ completedSteps = NoFlags
  /\ schemaLoading = FALSE /\ schemaError = FALSE
  /\ localStorage = EmptyObject /\ pending = <<>> /\ parsedData = FALSE
  /\ uploads = 0 /\ fixes = 0 /\ dirty = {}
  /\ last = NoCall /\ returned = FALSE /\ fixed = EmptyObject
  /\ validationErrors = <<>>
  /\ \/ /\ phase = "transform"
        /\ schema \in PureSchemas
        /\ csvHeaders = <<>>
        /\ allRows \in SeqsUpTo(PureRows, MaxRecords)
        /\ mapping \in MappingsOf(schema, {H_Stan, H_Data})
        /\ standardRecords = <<>>
     \/ /\ phase = "validate"
        /\ schema \in PureSchemas
        /\ csvHeaders = <<>>
        /\ allRows = <<>>
        /\ mapping = EmptyObject
        /\ standardRecords \in SeqsUpTo(PureRecords, MaxRecords)
     \/ /\ phase = "map"
        /\ schema \in PureSchemas \cup MapSchemas
        /\ csvHeaders \in PureHeaderLists
        /\ allRows = <<>>
        /\ mapping = EmptyObject
        /\ standardRecords = <<>>
     \/ /\ phase = "evaluate"
        /\ schema \in PureSchemas \cup MapSchemas
        /\ csvHeaders \in PureHeaderLists
        /\ allRows = <<>>
        /\ mapping \in MappingsOf(schema, {H_Stan, H_status, H_found_date, H_date})
        /\ standardRecords = <<>>

\* {records, errors} = transformAndValidate(allRows, mapping, schema)
CallTransformAndValidate ==
  /\ phase = "transform"
  /\ standardRecords' = transformAndValidate(allRows, mapping, schema).records
  /\ validationErrors' = transformAndValidate(allRows, mapping, schema).errors
  /\ last' = Call("transformAndValidate")
  /\ UNCHANGED <<currentStep, completedSteps, schema, schemaLoading, schemaError,
                 csvHeaders, allRows, mapping, localStorage, pending, parsedData,
                 uploads, fixes, dirty, phase, returned, fixed>>

\* errors = validateRecords(standardRecords, schema)
CallValidateRecords ==
  /\ phase \in {"transform", "validate"}
  /\ validationErrors' = validateRecords(standardRecords, schema)
  /\ last' = Call("validateRecords")
  /\ UNCHANGED <<currentStep, completedSteps, schema, schemaLoading, schemaError,
                 csvHeaders, allRows, mapping, standardRecords, localStorage, pending,
                 parsedData, uploads, fixes, dirty, phase, returned, fixed>>

\* mapping = buildDefaultMapping(csvHeaders, schema)
CallBuildDefaultMapping ==
  /\ phase = "map"
  /\ mapping' = buildDefaultMapping(csvHeaders, schema)
  /\ last' = Call("buildDefaultMapping")
  /\ UNCHANGED <<currentStep, completedSteps, schema, schemaLoading, schemaError,
                 csvHeaders, allRows, standardRecords, validationErrors, localStorage,
                 pending, parsedData, uploads, fixes, dirty, phase, returned, fixed>>

\* returned = isPerfectMapping(schema, mapping, csvHeaders)
CallIsPerfectMapping ==
  /\ phase \in {"map", "evaluate"}
  /\ returned' = isPerfectMapping(schema, mapping, csvHeaders)
  /\ last' = Call("isPerfectMapping")
  /\ UNCHANGED <<currentStep, completedSteps, schema, schemaLoading, schemaError,
                 csvHeaders, allRows, mapping, standardRecords, validationErrors,
                 localStorage, pending, parsedData, uploads, fixes, dirty, phase, fixed>>

PureNext ==
  \/ CallTransformAndValidate
  \/ CallValidateRecords
  \/ CallBuildDefaultMapping
  \/ CallIsPerfectMapping

PureSpec == PureInit /\ [][PureNext]_vars

-----------------------------------------------------------------------------
(* Properties of the pure functions, over the states of PureSpec.            *)

\* The header a mapping gives a field, or Undefined when the field is unmapped
\* (its entry is null or missing).
HeaderOf(map, field) ==
  IF Get(map, field.name) = Null THEN Undefined ELSE Get(map, field.name)

\* What the field rule of the transformer prescribes for one row and field:
\* the value of the record's entry, or Undefined for no entry.
PrescribedEntry(row, map, field) ==
  LET header == HeaderOf(map, field)
  IN  IF header # Undefined /\ header \in DOMAIN row THEN row[header]
      ELSE IF header # Undefined \/ field.required THEN <<>>
      ELSE Undefined

\* C11: after a transformation, every record holds for every schema field the
\* row's string if the field is mapped and the row has the header, the empty
\* string if the field is mapped and the row lacks the header or the field is
\* required and unmapped, and no entry if the field is optional and unmapped.
C11_TransformFieldRule ==
  last.op = "transformAndValidate" =>
    \A r \in 1..Len(allRows) : \A i \in 1..Len(schema) :
      Get(standardRecords[r], schema[i].name)
        = PrescribedEntry(allRows[r], mapping, schema[i])

\* C12: a transformation of N rows returns N records, and record i is the
\* record the transformation of row i alone returns, whatever the mapping.
C12_OneRecordPerRow ==
  last.op = "transformAndValidate" =>
    /\ Len(standardRecords) = Len(allRows)
    /\ \A i \in 1..Len(allRows) :
         standardRecords[i] = transformAndValidate(<<allRows[i]>>, mapping, schema).records[1]

\* C12 witness: two different rows were transformed into two different
\* records under a mapping with a missing key and a header the first row lacks.
C12_Witness ==
  /\ last.op = "transformAndValidate"
  /\ Len(allRows) = MaxRecords
  /\ allRows[1] # allRows[2]
  /\ standardRecords[1] # standardRecords[2]
  /\ \E i \in 1..Len(schema) : schema[i].name \notin DOMAIN mapping
  /\ \E k \in DOMAIN mapping : mapping[k] # Null /\ mapping[k] \notin DOMAIN allRows[1]

\* The position of an error in the order (record index, schema position).
ErrorBefore(a, b) ==
  \/ a.rowIndex < b.rowIndex
  \/ a.rowIndex = b.rowIndex /\ FieldIndex(schema, a.field) < FieldIndex(schema, b.field)

\* C13: the error list a validation returns is strictly increasing in
\* (record index, position of the field in the schema), so no (rowIndex,
\* field) pair occurs twice.
C13_ErrorsInRowThenSchemaOrder ==
  last.op \in {"transformAndValidate", "validateRecords"} =>
    \A a \in 1..Len(validationErrors) : \A b \in 1..Len(validationErrors) :
      a < b => ErrorBefore(validationErrors[a], validationErrors[b])

\* C13 witness: a validation returned two errors for one record and an error
\* for another record.
C13_Witness ==
  /\ last.op = "validateRecords"
  /\ \E a \in 1..Len(validationErrors) : \E b \in 1..Len(validationErrors) :
       \E c \in 1..Len(validationErrors) :
         /\ validationErrors[a].rowIndex = validationErrors[b].rowIndex
         /\ validationErrors[a].field # validationErrors[b].field
         /\ validationErrors[c].rowIndex # validationErrors[a].rowIndex

\* The errors of a list that are about one field of one record, in order.
ErrorsFor(errors, rowIndex, field) ==
  SelectSeq(errors, LAMBDA e : e.rowIndex = rowIndex /\ e.field = field)

\* A record value that is absent, empty or made of whitespace only.
IsBlankEntry(record, field) ==
  field.name \in DOMAIN record =>
    \A k \in 1..Len(record[field.name]) : record[field.name][k] = " "

\* C14: a validation returns for a blank value of a required field exactly one
\* error, with currentValue null, and for a blank value of an optional field
\* no error; a transformation gives an unmapped required field the empty
\* string in every record and so this error in every row.
C14_RequiredBlankIsOneNullError ==
  /\ last.op \in {"transformAndValidate", "validateRecords"} =>
       \A r \in 1..Len(standardRecords) : \A i \in 1..Len(schema) :
         IsBlankEntry(standardRecords[r], schema[i]) =>
           ErrorsFor(validationErrors, r - 1, schema[i].name)
             = IF schema[i].required
               THEN <<[rowIndex |-> r - 1, field |-> schema[i].name,
                       message |-> RequiredMessage(schema[i]), currentValue |-> Null]>>
               ELSE <<>>
  /\ last.op = "transformAndValidate" =>
       \A r \in 1..Len(allRows) : \A i \in 1..Len(schema) :
         (schema[i].required /\ HeaderOf(mapping, schema[i]) = Undefined) =>
           /\ Get(standardRecords[r], schema[i].name) = <<>>
           /\ Len(ErrorsFor(validationErrors, r - 1, schema[i].name)) = 1
           /\ ErrorsFor(validationErrors, r - 1, schema[i].name)[1].currentValue = Null

\* C14 witness: a transformation of two rows left a required field unmapped
\* and reported it for both rows, a whitespace-only value of a required field
\* was reported and a whitespace-only value of an optional field was not.
C14_Witness ==
  /\ last.op = "transformAndValidate"
  /\ Len(allRows) >= 2
  /\ \E i \in 1..Len(schema) :
       /\ schema[i].required /\ HeaderOf(mapping, schema[i]) = Undefined
       /\ \A r \in 1..Len(allRows) :
            Len(ErrorsFor(validationErrors, r - 1, schema[i].name)) = 1
  /\ \E i \in 1..Len(schema) : \E r \in 1..Len(allRows) :
       /\ Get(standardRecords[r], schema[i].name) = V_blank
       /\ Len(ErrorsFor(validationErrors, r - 1, schema[i].name))
            = IF schema[i].required THEN 1 ELSE 0

\* A string with its upper-case letters lowered, for comparison ignoring case.
SameIgnoringCase(a, b) == ToLowerCase(a) = ToLowerCase(b)

\* An enum field with a non-empty list of examples.
IsClosedEnum(field) ==
  field.type = "enum" /\ field.examples # NoExamples /\ field.examples # <<>>

\* C15: for an enum field with examples and a value that is not blank, a
\* validation returns no error if the trimmed value equals an example ignoring
\* case, and otherwise exactly one error, whose message lists the examples in
\* schema order joined by ", " and whose currentValue is the untrimmed value.
C15_EnumMatchesExamplesIgnoringCase ==
  last.op \in {"transformAndValidate", "validateRecords"} =>
    \A r \in 1..Len(standardRecords) : \A i \in 1..Len(schema) :
      (IsClosedEnum(schema[i]) /\ ~IsBlankEntry(standardRecords[r], schema[i])) =>
        LET value == standardRecords[r][schema[i].name]
            errors == ErrorsFor(validationErrors, r - 1, schema[i].name)
        IN  IF \E j \in 1..Len(schema[i].examples) :
                 SameIgnoringCase(Trim(value), schema[i].examples[j])
            THEN errors = <<>>
            ELSE /\ Len(errors) = 1
                 /\ errors[1].currentValue = value
                 /\ errors[1].message[4] = Join(schema[i].examples, <<",", " ">>)
                 /\ schema[i] = F_status_three =>
                      errors[1].message[4]
                        = V_przechowywany \o <<",", " ">> \o V_wydany
                            \o <<",", " ">> \o V_zlikwidowany

\* C15 witness: with the three examples, "Przechowywany" was accepted and
\* "zgubiony" was reported once.
C15_Witness ==
  /\ last.op = "validateRecords"
  /\ \E i \in 1..Len(schema) :
       /\ schema[i] = F_status_three
       /\ \E r \in 1..Len(standardRecords) : \E q \in 1..Len(standardRecords) :
            /\ Get(standardRecords[r], N_status) = V_Przechowywany
            /\ ErrorsFor(validationErrors, r - 1, N_status) = <<>>
            /\ Get(standardRecords[q], N_status) = V_zgubiony
            /\ Len(ErrorsFor(validationErrors, q - 1, N_status)) = 1

\* C16: for a value that is not blank, a validation returns no error for a
\* string field, returns for a date field one error exactly when the date
\* parser rejects the value (the message naming YYYY-MM-DD, currentValue the
\* value as given; "15.01.2024" rejected, "2024-01-15" accepted), and returns
\* no error for an enum field whose examples are absent or empty.
C16_FormatCheckByType ==
  last.op \in {"transformAndValidate", "validateRecords"} =>
    \A r \in 1..Len(standardRecords) : \A i \in 1..Len(schema) :
      ~IsBlankEntry(standardRecords[r], schema[i]) =>
        LET value == standardRecords[r][schema[i].name]
            errors == ErrorsFor(validationErrors, r - 1, schema[i].name)
        IN  /\ schema[i].type = "string" => errors = <<>>
            /\ schema[i].type = "date" =>
                 /\ errors = IF DateParses(value) THEN <<>>
                             ELSE <<[rowIndex |-> r - 1, field |-> schema[i].name,
                                     message |-> DateMessage(schema[i]),
                                     currentValue |-> value]>>
                 /\ value = V_dotted => Len(errors) = 1
                 /\ value = V_iso => Len(errors) = 0
            /\ (schema[i].type = "enum" /\ ~IsClosedEnum(schema[i])) => errors = <<>>

\* C16 witness: one validation accepted "2024-01-15" and reported "15.01.2024"
\* for a date field, and accepted a value for an enum field with an empty
\* list of examples.
C16_Witness ==
  /\ last.op = "validateRecords"
  /\ \E r \in 1..Len(standardRecords) : \E q \in 1..Len(standardRecords) :
       /\ Get(standardRecords[r], N_found_date) = V_iso
       /\ ErrorsFor(validationErrors, r - 1, N_found_date) = <<>>
       /\ Get(standardRecords[q], N_found_date) = V_dotted
       /\ Len(ErrorsFor(validationErrors, q - 1, N_found_date)) = 1
       /\ Get(standardRecords[q], N_status) = V_Przechowywany
  /\ schema[1] = F_status_none
  /\ validationErrors # <<>> /\ \A e \in 1..Len(validationErrors) : validationErrors[e].field # N_status

Strategy(k, header, field) ==
  LET h == ToLowerCase(header)
      n == ToLowerCase(field.name)
      words == SplitWhitespace(ToLowerCase(field.label))
  IN  CASE k = 1 -> h = n
        [] k = 2 -> Includes(h, n) \/ Includes(n, h)
        [] k = 3 -> \E w \in 1..Len(words) : Includes(h, words[w])

\* C18: the mapping the Auto-Mapper returns has one entry per schema field:
\* null if no header satisfies any strategy, and otherwise the first header
\* in header order that satisfies the lowest-numbered strategy any header
\* satisfies.
C18_FirstHeaderOfLowestStrategy ==
  last.op = "buildDefaultMapping" =>
    /\ DOMAIN mapping = {schema[i].name : i \in 1..Len(schema)}
    /\ \A i \in 1..Len(schema) :
         LET Hits(k) == {h \in 1..Len(csvHeaders) : Strategy(k, csvHeaders[h], schema[i])}
             Min(S) == CHOOSE x \in S : \A y \in S : x <= y
             tiers == {k \in 1..3 : Hits(k) # {}}
         IN  mapping[schema[i].name]
               = IF tiers = {} THEN Null ELSE csvHeaders[Min(Hits(Min(tiers)))]

\* C18 witness: of the headers "status_old", "STATUS", "Kategoria przedmiotu"
\* and "Opis", status was mapped to the later exact match "STATUS" and
\* item_category, by a word of its label, to "Kategoria przedmiotu".
C18_Witness ==
  /\ last.op = "buildDefaultMapping"
  /\ csvHeaders = <<H_status_old, H_STATUS, H_Kategoria, H_Opis>>
  /\ Get(mapping, N_status) = H_STATUS
  /\ Get(mapping, N_item_category) = H_Kategoria
  /\ Get(mapping, N_item_description) = H_Opis

-----------------------------------------------------------------------------
(* Properties of the wizard's mapping, over the states of Spec.              *)

\* C19: whenever the wizard has settled with a non-empty mapping, the keys of
\* the mapping are exactly the names of the schema's fields and every value
\* is null or a header of the file currently loaded.
C19_MappingOverSchemaAndHeaders ==
  (Settled /\ DOMAIN mapping # {}) =>
    /\ DOMAIN mapping = {schema[i].name : i \in 1..Len(schema)}
    /\ \A k \in DOMAIN mapping : mapping[k] = Null \/ ArrayIncludes(csvHeaders, mapping[k])

-----------------------------------------------------------------------------
(* Properties of isPerfectMapping, over the states of PureSpec.              *)

\* The headers a mapping uses, one per mapped entry.
Targets(map) == [k \in {k \in DOMAIN map : map[k] # Null} |-> map[k]]

\* C20: isPerfectMapping returns true only for a mapping in which every
\* required field of the schema has an entry that is a header, no two entries
\* have the same header, every header used is one of csvHeaders and at least
\* one entry is a header.
C20_PerfectOnlyIfWellFormed ==
  (last.op = "isPerfectMapping" /\ returned) =>
    /\ \A i \in 1..Len(schema) :
         schema[i].required =>
           schema[i].name \in DOMAIN mapping /\ mapping[schema[i].name] # Null
    /\ \A j \in DOMAIN Targets(mapping) : \A k \in DOMAIN Targets(mapping) :
         j # k => mapping[j] # mapping[k]
    /\ \A k \in DOMAIN Targets(mapping) : ArrayIncludes(csvHeaders, mapping[k])
    /\ DOMAIN Targets(mapping) # {}

\* The structural conditions of isPerfectMapping: every schema field has an
\* entry, the required ones a header, no header is used twice, every header
\* used is one of csvHeaders, and some entry is a header.
IsStructurallySound ==
  /\ DOMAIN mapping = {schema[i].name : i \in 1..Len(schema)}
  /\ \A i \in 1..Len(schema) : schema[i].required => mapping[schema[i].name] # Null
  /\ \A j \in DOMAIN Targets(mapping) : \A k \in DOMAIN Targets(mapping) :
       j # k => mapping[j] # mapping[k]
  /\ \A k \in DOMAIN Targets(mapping) : ArrayIncludes(csvHeaders, mapping[k])
  /\ DOMAIN Targets(mapping) # {}

\* A normalized-name match of a header and a field: the header, lower-cased
\* and trimmed, equals the lower-cased name or the normalized label, or
\* contains or is contained in one of the two.
IsNormalizedNameMatch(field, header) ==
  LET h == Trim(ToLowerCase(header))
      forms == {ToLowerCase(field.name), NormalizedLabel(field)}
  IN  \E f \in forms : h = f \/ Includes(h, f) \/ Includes(f, h)

\* C21: for a structurally sound mapping isPerfectMapping returns true exactly
\* when the mapped fields with a normalized-name match are at least 80% of
\* the mapped fields.
C21_PerfectIffEightyPercentMatch ==
  (last.op = "isPerfectMapping" /\ IsStructurallySound) =>
    LET mapped == {i \in 1..Len(schema) : mapping[schema[i].name] # Null}
        matched == {i \in mapped : IsNormalizedNameMatch(schema[i], mapping[schema[i].name])}
    IN  returned <=> 5 * Cardinality(matched) >= 4 * Cardinality(mapped)

\* The CSV headers are the names of the schema's fields, each once, in any
\* order, and the names differ pairwise ignoring case.
HeadersAreFieldNames ==
  /\ Len(schema) > 0
  /\ Len(csvHeaders) = Len(schema)
  /\ {csvHeaders[h] : h \in 1..Len(csvHeaders)} = {schema[i].name : i \in 1..Len(schema)}
  /\ \A i \in 1..Len(schema) : \A j \in 1..Len(schema) :
       i # j => ~SameIgnoringCase(schema[i].name, schema[j].name)

\* C22: when the headers are the field names, the Auto-Mapper maps every field
\* to the header equal to its name, and isPerfectMapping returns true for the
\* mapping the Auto-Mapper returned.
C22_TemplateIsMappedPerfectly ==
  (phase = "map" /\ HeadersAreFieldNames) =>
    /\ last.op = "buildDefaultMapping" =>
         \A i \in 1..Len(schema) : Get(mapping, schema[i].name) = schema[i].name
    /\ (last.op = "isPerfectMapping" /\ mapping # EmptyObject) => returned

\* C22 witness: for the headers "status_old", "status" and the fields status,
\* status_old the Auto-Mapper's mapping was evaluated.
C22_Witness ==
  /\ phase = "map" /\ HeadersAreFieldNames
  /\ last.op = "isPerfectMapping" /\ returned
  /\ csvHeaders = <<H_status_old, H_status>>
  /\ Get(mapping, N_status) = H_status

-----------------------------------------------------------------------------
(* Properties of the wizard, over the states of Spec (continued).            *)

\* A cached profile exists, carries the current version tag and maps only to
\* null or to headers of the given list.
ProfileApplies(storage, headers) ==
  /\ MAPPING_PROFILE_KEY \in DOMAIN storage
  /\ storage[MAPPING_PROFILE_KEY].schemaVersion = CURRENT_SCHEMA_VERSION
  /\ \A k \in DOMAIN storage[MAPPING_PROFILE_KEY].mapping :
       \/ storage[MAPPING_PROFILE_KEY].mapping[k] = Null
       \/ ArrayIncludes(headers, storage[MAPPING_PROFILE_KEY].mapping[k])

\* C23: when an upload made with the schema loaded completes, the mapping
\* becomes the cached profile's mapping if the profile applies to the new
\* headers and the Auto-Mapper's output for the new headers otherwise; no
\* error is raised, and the effects that follow leave that mapping alone.
C23_ProfileOrAutoMapperOnUpload ==
  [][ /\ last'.op = "uploadDone" =>
           \A i \in 1..Len(pending) :
             (/\ pending' = RemoveAt(pending, i)
              /\ csvHeaders' = pending[i].data.headers
              /\ allRows' = pending[i].data.rows
              /\ pending[i].schema # <<>>) =>
               /\ mapping' = IF ProfileApplies(localStorage, csvHeaders')
                             THEN localStorage[MAPPING_PROFILE_KEY].mapping
                             ELSE buildDefaultMapping(csvHeaders', schema)
               /\ schemaError' = schemaError
      /\ (phase' = "effects" /\ last.op = "uploadDone" /\ mapping # EmptyObject) =>
           mapping' = mapping /\ schemaError' = schemaError ]_vars

\* C23 witness: an upload completed with the schema loaded and took the
\* cached profile's mapping, which is not what the Auto-Mapper returns.
C23_Witness ==
  /\ last.op = "uploadDone" /\ phase = "handler"
  /\ schema # <<>>
  /\ ProfileApplies(localStorage, csvHeaders)
  /\ mapping = localStorage[MAPPING_PROFILE_KEY].mapping
  /\ mapping # buildDefaultMapping(csvHeaders, schema)

\* C24: whenever the wizard has settled on step 3, the completion flag of
\* step 3 is true exactly when the error list is empty, and Next is enabled
\* exactly then.
C24_Step3FlagIffNoErrors ==
  (Settled /\ currentStep = 3) =>
    /\ completedSteps[3] <=> validationErrors = <<>>
    /\ canGoNext <=> validationErrors = <<>>

\* C24 witness: the wizard has settled on step 3 with the flag raised after a
\* fix emptied the error list.
C24_Witness ==
  /\ Settled /\ currentStep = 3
  /\ fixes > 0
  /\ validationErrors = <<>>
  /\ completedSteps[3]

\* Two records agree on every field but the given one.
SameExcept(before, after, field) ==
  /\ DOMAIN before \ {field} = DOMAIN after \ {field}
  /\ \A k \in DOMAIN before \ {field} : before[k] = after[k]

\* The records and rows are as many as before, in the same order, and no
\* record cell other than (rowIndex, field) has changed.
OnlyCellChanged(rowIndex, field) ==
  /\ Len(standardRecords') = Len(standardRecords)
  /\ Len(allRows') = Len(allRows)
  /\ \A r \in 1..Len(standardRecords) :
       IF r = rowIndex + 1
       THEN SameExcept(standardRecords[r], standardRecords'[r], field)
       ELSE standardRecords'[r] = standardRecords[r]
  /\ \A r \in 1..Len(allRows) : r # rowIndex + 1 => allRows'[r] = allRows[r]

\* C25: an applied fix at (rowIndex, field), and the effects it triggers,
\* leave the number and order of the records and rows as they were and change
\* no record cell other than (rowIndex, field).
C25_FixTouchesOneCell ==
  [][ /\ (last'.op = "handleFixError" /\ last'.changed /\ phase' = "handler") =>
           OnlyCellChanged(last'.rowIndex, last'.field)
      /\ (last.op = "handleFixError" /\ last.changed /\ phase' = "effects") =>
           OnlyCellChanged(last.rowIndex, last.field) ]_vars

\* C26: a record cell that a fix has set keeps the value of its last fix for
\* as long as the mapping is not edited, no upload arrives and the wizard is
\* not restarted, whatever fixes to other cells and navigation happen.
C26_FixedCellKeepsValue ==
  \A cell \in DOMAIN fixed :
    /\ cell[1] + 1 \in 1..Len(standardRecords)
    /\ Get(standardRecords[cell[1] + 1], cell[2]) = fixed[cell]

-----------------------------------------------------------------------------
(* The wizard resting on step 3 after an upload and a mapping made with the  *)
(* schema loaded: the states from which errors are fixed.                    *)

\* Rows of the file the session of fixes starts with.
MaxFixRows == 2

\* The cells of column "Stan": invalid for both fields, empty, valid for
\* status only, valid for found_date only.
FixRows == {H_Stan :> v : v \in {V_no, <<>>, V_ok, V_iso}}

\* Mappings that pass the step-2 gate for the header "Stan".
FixMappings ==
  {[n \in {N_status, N_found_date} |-> IF n = N_status THEN H_Stan ELSE target] :
     target \in {Null, H_Stan}}

\* Step 3 as the wizard settles on it: the file parsed (handleDataParsed),
\* step 2 passed, the profile saved and the rows transformed and validated by
\* the effects of entering step 3.
FixInit ==
  /\ currentStep = 3
  /\ schema = TheSchema /\ schemaLoading = FALSE /\ schemaError = FALSE
  /\ csvHeaders = <<H_Stan>>
  /\ allRows \in UNION {[1..k -> FixRows] : k \in 1..MaxFixRows}
  /\ mapping \in FixMappings
  /\ standardRecords = transformAndValidate(allRows, mapping, schema).records
  /\ validationErrors = transformAndValidate(allRows, mapping, schema).errors
  /\ completedSteps = [k \in Steps |-> k \in {1, 2} \/ (k = 3 /\ Step3Complete(validationErrors))]
  /\ localStorage = saveMappingProfile(EmptyObject, mapping, csvHeaders)
  /\ pending = <<>> /\ parsedData = FALSE
  /\ uploads = 1 /\ fixes = 0
  /\ dirty = {} /\ phase = "effects" /\ last = NoCall
  /\ returned = FALSE /\ fixed = EmptyObject

FixNext ==
  \/ handleFixError
  \/ RunEffects
  \/ goNext
  \/ goPrev

FixSpec == FixInit /\ [][FixNext]_vars

\* The step is, or follows, a fix that changed a listed value to one valid
\* for its field.
IsValidFix(call) ==
  /\ IsFix(call) /\ call.changed
  /\ FieldIndex(schema, call.field) # 0
  /\ ValidForField(schema[FieldIndex(schema, call.field)], call.newValue)

\* The (rowIndex, field) pairs an error list has errors for.
ErrorCells(errors) == {<<errors[e].rowIndex, errors[e].field>> : e \in 1..Len(errors)}

\* C27: a fix of a listed error with a value valid for the error's field
\* shortens the error list by exactly one and brings no error for a cell that
\* had none, and the effects the fix triggers leave the list as long as that
\* and bring no error for another cell either.
C27_ValidFixShortensListByOne ==
  [][ /\ (phase' = "handler" /\ IsValidFix(last')) =>
           /\ Len(validationErrors') = Len(validationErrors) - 1
           /\ ErrorCells(validationErrors') \subseteq ErrorCells(validationErrors)
      /\ (phase' = "effects" /\ IsValidFix(last)) =>
           /\ Len(validationErrors') = Len(validationErrors)
           /\ ErrorCells(validationErrors') \subseteq ErrorCells(validationErrors) ]_vars

\* C28: the errors transformAndValidate returns are the errors validateRecords
\* returns for the records of the same call, whatever the rows, the mapping
\* and the schema.
C28_TransformErrorsAreValidateRecords ==
  last.op = "transformAndValidate" =>
    validationErrors = validateRecords(standardRecords, schema)

\* C28 witness: a transformation of rows that gave errors in two records, one
\* of them a record without the key of an unmapped optional field.
C28_Witness ==
  /\ last.op = "transformAndValidate"
  /\ \E e1, e2 \in 1..Len(validationErrors) :
       validationErrors[e1].rowIndex # validationErrors[e2].rowIndex
  /\ \E e \in 1..Len(validationErrors) : \E i \in 1..Len(schema) :
       schema[i].name \notin DOMAIN standardRecords[validationErrors[e].rowIndex + 1]

\* Running every effect once more, whatever its dependencies, would set no
\* mapping, record, error or completion flag to another value (no effect sets
\* headers or rows).
EffectsChangeNothing ==
  /\ (Len(schema) > 0 /\ Len(csvHeaders) > 0 /\ DOMAIN mapping = {}) =>
       ProfileOrDefault(localStorage, csvHeaders, schema) = mapping
  /\ (currentStep = 3 /\ Len(allRows) > 0 /\ Len(schema) > 0 /\ DOMAIN mapping # {}) =>
       /\ transformAndValidate(allRows, mapping, schema).records = standardRecords
       /\ transformAndValidate(allRows, mapping, schema).errors = validationErrors
  /\ currentStep = 3 =>
       handleStepComplete(completedSteps, 3, Step3Complete(validationErrors)) = completedSteps
  /\ StepEffect(completedSteps) = completedSteps

\* The commits a chain of effects may still need: one that runs the effects
\* of what the handler set, one for a rebuilt mapping, one for a changed number
\* of errors, one for changed flags, one for a flag a step's callback has yet
\* to report.
ChainRank ==
  IF Settled THEN 0
  ELSE IF dirty \ {"mapping", "validationErrors.length", "completedSteps"} # {} THEN 5
  ELSE IF "mapping" \in dirty THEN 4
  ELSE IF "validationErrors.length" \in dirty THEN 3
  ELSE IF "completedSteps" \in dirty THEN 2
  ELSE 1

\* C29: the commits that follow a user action are a chain that ends: every
\* commit brings the chain nearer to its end, and the state it ends in is one
\* where running every effect again changes no mapping, record, error or flag.
C29_EffectChainTerminates ==
  [][ phase' = "effects" =>
        /\ ChainRank' < ChainRank
        /\ Settled' => EffectsChangeNothing' ]_vars

\* C30: while no schema is loaded the completion flag of step 2 is not raised
\* and the wizard is on step 1 or 2.
C30_NoAdvanceWithoutSchema ==
  schema = <<>> => (completedSteps[2] = FALSE /\ currentStep \in {1, 2})

====
